---- MODULE Spec2Model ----
\* Provider plugin invocation of pkg/compose/plugins.go: runPlugin and
\* executePlugin, the child process, the process-wait task started by
\* eg.Go(cmd.Wait), and the json decode loop over the child's stdout.
EXTENDS Integers, Sequences, FiniteSets, TLC

\* Strings the code cuts, upper-cases or concatenates are sequences of
\* characters; message types and commands are compared whole and stay strings.

\* ---------------------------------------------------------------- bounds

\* Messages the child writes to its stdout in one invocation.
MaxMsgs == 3

\* ------------------------------------------------------------- constants

ErrorType == "error"
InfoType == "info"
SetEnvType == "setenv"

\* -------------------------------------------------------------- strings

\* strings.ToUpper on one character.
UpperChar(c) ==
    CASE c = "a" -> "A"
      [] c = "b" -> "B"
      [] c = "d" -> "D"
      [] c = "e" -> "E"
      [] c = "i" -> "I"
      [] c = "j" -> "J"
      [] c = "o" -> "O"
      [] c = "p" -> "P"
      [] c = "w" -> "W"
      [] c = "x" -> "X"
      [] c = "y" -> "Y"
      [] OTHER -> c

\* strings.ToUpper(service.Name)
ToUpper(s) == [i \in 1..Len(s) |-> UpperChar(s[i])]

\* Index of the first "=" of s, 0 when there is none.
IndexEq(s) ==
    IF \E i \in 1..Len(s) : s[i] = "="
    THEN CHOOSE i \in 1..Len(s) : s[i] = "=" /\ \A j \in 1..(i - 1) : s[j] # "="
    ELSE 0

\* Cut as it would be if it cut at the last "=" instead of the first.
CutLast(s) ==
    IF \A i \in 1..Len(s) : s[i] # "="
    THEN [key |-> s, val |-> <<>>, found |-> FALSE]
    ELSE LET i == CHOOSE j \in 1..Len(s) : s[j] = "=" /\ \A l \in (j + 1)..Len(s) : s[l] # "="
         IN [key |-> SubSeq(s, 1, i - 1), val |-> SubSeq(s, i + 1, Len(s)), found |-> TRUE]

\* strings.Cut(msg.Message, "="): before, after, found.
Cut(s) ==
    LET i == IndexEq(s) IN
    IF i = 0
    THEN [key |-> s, val |-> <<>>, found |-> FALSE]
    ELSE [key |-> SubSeq(s, 1, i - 1), val |-> SubSeq(s, i + 1, Len(s)), found |-> TRUE]

\* ---------------------------------------------------------------- errors

\* A text is a sequence of pieces: single characters where the code looks
\* inside it, whole words elsewhere (Text of a word).
Text(word) == <<word>>

\* An error value is its format and the texts formatted into it; NoErr is the
\* nil error, New(text) is errors.New(text).
NoErr == [fmt |-> "", args |-> <<>>]
Err(f, a) == [fmt |-> f, args |-> a]
New(text) == [fmt |-> "", args |-> <<text>>]

\* err.Error()
RECURSIVE Concat(_)
Concat(texts) == IF texts = <<>> THEN <<>> ELSE Head(texts) \o Concat(Tail(texts))
Error(e) == (IF e.fmt = "" THEN <<>> ELSE <<e.fmt>>) \o Concat(e.args)

\* strconv.Itoa on an exit status.
Itoa(n) == IF n < 0 THEN <<"-", ToString(-n)>> ELSE <<ToString(n)>>

\* -------------------------------------------------------------- mappings

\* types.Mapping / the Environment map; EmptyMap is a non-nil empty map.
EmptyMap == [k \in {} |-> <<>>]
MapSet(m, k, v) == [x \in (DOMAIN m) \cup {k} |-> IF x = k THEN v ELSE m[x]]

\* The (types.Mapping, error) pair's first half: a nil or non-nil map.
NilVars == [nil |-> TRUE, m |-> EmptyMap]
Vars(m) == [nil |-> FALSE, m |-> m]

\* ---------------------------------------------------------------- inputs

db == <<"d", "b">>
web == <<"w", "e", "b">>
api == <<"a", "p", "i">>
job == <<"j", "o", "b">>

\* A types.ServiceConfig as far as runPlugin reads or writes it.
ServiceConfig(deps, env) == [DependsOn |-> deps, Environment |-> env]

\* project.Services of the project an invocation is run on: web and job
\* depend on db directly, api on db only through web; web already has an entry
\* under a prefixed key, and so have db itself and api.
Projects ==
    { [n \in {db, web, api, job} |->
         CASE n = db -> ServiceConfig({}, MapSet(EmptyMap, <<"D", "B", "_", "a">>, <<"o">>))
           [] n = web -> ServiceConfig({db}, MapSet(MapSet(EmptyMap, <<"p">>, <<"8">>),
                                                    <<"D", "B", "_", "a">>, <<"o">>))
           [] n = api -> ServiceConfig({web}, MapSet(EmptyMap, <<"D", "B", "_", "a">>, <<"o">>))
           [] n = job -> ServiceConfig({db, web}, EmptyMap)] }

\* The command argument of runPlugin.
Commands == {"up", "down", "restart"}

\* One element of the child's stdout: a JSON object, or bytes that are not one.
JsonMessage(t, m) == [json |-> TRUE, Type |-> t, Message |-> m]
Garbage == [json |-> FALSE, Type |-> "", Message |-> <<>>]
NoMsg == [json |-> TRUE, Type |-> "", Message |-> <<>>]

\* What a child may write.
Messages ==
    { JsonMessage(ErrorType, <<"b", "a", "d">>),
      JsonMessage(InfoType, <<"h", "i">>),
      JsonMessage(SetEnvType, <<"a", "=", "x">>),
      JsonMessage(SetEnvType, <<"b", "=", "y", "=", "x">>),
      JsonMessage(SetEnvType, <<"a", "=">>),
      JsonMessage(SetEnvType, <<"a", "x">>),
      JsonMessage("set-env", <<"a", "=", "x">>),
      Garbage }

\* Exit statuses of a child that exits by itself; -1 is death by signal.
ExitCodes == {0, 1}

\* ----------------------------------------------------------------- state

VARIABLES
    pc,         \* position of runPlugin / executePlugin
    command,    \* runPlugin's command argument
    project,    \* project.Services
    project0,   \* project.Services when runPlugin was called
    plugin,     \* plugin.Name returned by getPluginBinaryPath
    hook,       \* cmd.Cancel: "server" (server.Close) or "kill" (the default)
    ctxDone,    \* ctx has been cancelled
    child,      \* the plugin process: "none", "running", "exited"
    exitCode,   \* its exit status once exited
    sent,       \* messages it has sent, in order
    wclosed,    \* the write end of its stdout is closed
    pipe,       \* messages sent and not yet read
    stdout,     \* the parent's read end: "none", "open", "closed"
    waitTask,   \* the goroutine of eg.Go(cmd.Wait): "none", "running", "done"
    waitErr,    \* what cmd.Wait returned
    buf,        \* json.Decoder's buffer: messages read and not yet decoded
    msg,        \* the message decoded last
    nDecoded,   \* messages decoded and dispatched
    sawEOF,     \* the loop ended at io.EOF
    variables,  \* executePlugin's variables map
    events,     \* events given to the progress writer, in order
    joins,      \* calls of eg.Wait()
    retVars,    \* executePlugin's returned mapping
    retErr,     \* executePlugin's returned error
    runErr,     \* runPlugin's returned error
    integration, \* what isDesktopIntegrationActive answered: "", "on", "off"
    probe,      \* how `docker model status` ended: "", "ok", "exit1", "other"
    server,     \* the plugin server of setupPluginCommand: "none", "open", "closed"
    spawned,    \* calls of cmd.Start that started a process
    closers,    \* who has called Close on the parent's end of stdout
    signal      \* whether cmd.Cancel reached the running child: "none", "delivered", "lost"

vars == <<pc, command, project, project0, plugin, hook, ctxDone, child, exitCode,
          sent, wclosed, pipe, stdout, waitTask, waitErr, buf, msg, nDecoded,
          sawEOF, variables, events, joins, retVars, retErr, runErr,
          integration, probe, server, spawned, closers, signal>>

\* The service runPlugin is called for.
service == [Name |-> db]

\* progress events, by constructor.
Event(ctor, id, text) == [ctor |-> ctor, id |-> id, text |-> text]
CreatingEvent(id) == Event("CreatingEvent", id, <<>>)
CreatedEvent(id) == Event("CreatedEvent", id, <<>>)
RemovingEvent(id) == Event("RemovingEvent", id, <<>>)
RemovedEvent(id) == Event("RemovedEvent", id, <<>>)
ErrorMessageEvent(id, text) == Event("ErrorMessageEvent", id, text)

Init ==
    /\ pc = "resolve"
    /\ command \in Commands
    /\ project \in Projects
    /\ project0 = project
    /\ plugin = ""
    /\ hook = "kill"
    /\ ctxDone = FALSE
    /\ child = "none"
    /\ exitCode = 0
    /\ sent = <<>>
    /\ wclosed = FALSE
    /\ pipe = <<>>
    /\ stdout = "none"
    /\ waitTask = "none"
    /\ waitErr = NoErr
    /\ buf = <<>>
    /\ msg = NoMsg
    /\ nDecoded = 0
    /\ sawEOF = FALSE
    /\ variables = EmptyMap
    /\ events = <<>>
    /\ joins = 0
    /\ retVars = NilVars
    /\ retErr = NoErr
    /\ runErr = NoErr
    /\ integration = ""
    /\ probe = ""
    /\ server = "none"
    /\ spawned = 0
    /\ closers = {}
    /\ signal = "none"

\* ------------------------------------------------------------- runPlugin

\* plugin, err := s.getPluginBinaryPath(provider.Type); an error is returned.
Resolve ==
    /\ pc = "resolve"
    /\ \E found \in {"", "model", "other"} :
         IF found = ""
         THEN /\ runErr' = Err("plugin not found", <<>>)
              /\ pc' = "done"
              /\ UNCHANGED plugin
         ELSE /\ plugin' = found
              /\ pc' = "gate"
              /\ UNCHANGED runErr
    /\ UNCHANGED <<command, project, project0, hook, ctxDone, child, exitCode,
                   sent, wclosed, pipe, stdout, waitTask, waitErr, buf, msg,
                   nDecoded, sawEOF, variables, events, joins, retVars, retErr,
                   integration, probe, server, spawned, closers, signal>>

\* checkPluginEnabledInDD as it would be if every error of the status command
\* failed the check.
checkPluginEnabledInDDAnyError(name, integrationEnabled, status) ==
    IF ~integrationEnabled
    THEN Err("you should enable Docker Desktop integration to use %q provider services", <<Text(name)>>)
    ELSE IF name = "model"
         THEN IF status # "ok"
              THEN Err("you should enable model runner to use %q provider services: %s", <<Text(name), Text(status)>>)
              ELSE NoErr
         ELSE Err("unsupported provider %q", <<Text(name)>>)

\* The error of checkPluginEnabledInDD for a plugin name, the integration
\* switch and the outcome of `docker model status` ("ok", "exit1", "other").
checkPluginEnabledInDD(name, integrationEnabled, status) ==
    IF ~integrationEnabled
    THEN Err("you should enable Docker Desktop integration to use %q provider services", <<Text(name)>>)
    ELSE IF name = "model"
         THEN IF status = "exit1"
              THEN Err("you should enable model runner to use %q provider services: %s", <<Text(name), Text(status)>>)
              ELSE NoErr
         ELSE Err("unsupported provider %q", <<Text(name)>>)

\* Gate as it would be if the error of the check were dropped.
GateIgnoringError ==
    /\ pc = "gate"
    /\ \E integrationEnabled \in BOOLEAN, status \in {"ok", "exit1", "other"} :
         /\ integration' = IF integrationEnabled THEN "on" ELSE "off"
         /\ probe' = IF integrationEnabled /\ plugin = "model" THEN status ELSE ""
    /\ pc' = "setup"
    /\ UNCHANGED <<command, project, project0, plugin, hook, ctxDone, child, exitCode,
                   sent, wclosed, pipe, stdout, waitTask, waitErr, buf, msg,
                   nDecoded, sawEOF, variables, events, joins, retVars, retErr, runErr,
                   server, spawned, closers, signal>>

\* if err := s.checkPluginEnabledInDD(ctx, plugin); err != nil { return err }
Gate ==
    /\ pc = "gate"
    /\ \E integrationEnabled \in BOOLEAN, status \in {"ok", "exit1", "other"} :
         LET err == checkPluginEnabledInDD(plugin, integrationEnabled, status) IN
         /\ integration' = IF integrationEnabled THEN "on" ELSE "off"
         /\ probe' = IF integrationEnabled /\ plugin = "model" THEN status ELSE ""
         /\ IF err # NoErr
            THEN runErr' = err /\ pc' = "done"
            ELSE pc' = "setup" /\ UNCHANGED runErr
    /\ UNCHANGED <<command, project, project0, plugin, hook, ctxDone, child, exitCode,
                   sent, wclosed, pipe, stdout, waitTask, waitErr, buf, msg,
                   nDecoded, sawEOF, variables, events, joins, retVars, retErr,
                   server, spawned, closers, signal>>

\* cmd := s.setupPluginCommand(...): cmd.Cancel is server.Close when the plugin
\* server was obtained, and stays exec's default (Process.Kill) otherwise; the
\* deferred server.Close() has run when the function returns.
setupPluginCommand ==
    /\ pc = "setup"
    /\ \E obtained \in BOOLEAN :
         /\ hook' = IF obtained THEN "server" ELSE "kill"
         /\ server' = IF obtained THEN "closed" ELSE "none"
    /\ pc' = "pipe"
    /\ UNCHANGED <<command, project, project0, plugin, ctxDone, child, exitCode,
                   sent, wclosed, pipe, stdout, waitTask, waitErr, buf, msg,
                   nDecoded, sawEOF, variables, events, joins, retVars, retErr, runErr,
                   integration, probe, spawned, closers, signal>>

\* SetEnvironment as it would be if every entry pointed at one shared loop
\* variable: all copied keys end with the value iterated last.
SetEnvironmentShared(env, prefix, variables_, keys) ==
    IF keys = {}
    THEN env
    ELSE LET last == CHOOSE k \in keys : \A o \in keys : Len(variables_[o]) <= Len(variables_[k])
             new == {prefix \o k : k \in keys} IN
         [x \in (DOMAIN env) \cup new |-> IF x \in new THEN variables_[last] ELSE env[x]]

\* SetEnvironment as it would be if an entry the environment already has were
\* kept.
RECURSIVE SetEnvironmentKeepExisting(_, _, _, _)
SetEnvironmentKeepExisting(env, prefix, variables_, keys) ==
    IF keys = {}
    THEN env
    ELSE LET key == CHOOSE k \in keys : TRUE IN
         SetEnvironmentKeepExisting(
             IF prefix \o key \in DOMAIN env
             THEN env
             ELSE MapSet(env, prefix \o key, variables_[key]),
             prefix, variables_, keys \ {key})

\* One pass of the inner loop of runPlugin over the keys still to copy:
\* s.Environment[prefix+key] = &val, val being the iteration's own variable.
RECURSIVE SetEnvironment(_, _, _, _)
SetEnvironment(env, prefix, variables_, keys) ==
    IF keys = {}
    THEN env
    ELSE LET key == CHOOSE k \in keys : TRUE IN
         SetEnvironment(MapSet(env, prefix \o key, variables_[key]),
                        prefix, variables_, keys \ {key})

\* Propagate as it would be without the test of DependsOn.
PropagateToAll(services, name, variables_) ==
    [n \in DOMAIN services |->
        [services[n] EXCEPT
            !.Environment = SetEnvironment(@, ToUpper(name) \o <<"_">>,
                                           variables_, DOMAIN variables_)]]

\* The loop over project.Services of runPlugin.
Propagate(services, name, variables_) ==
    [n \in DOMAIN services |->
        IF name \in services[n].DependsOn
        THEN [services[n] EXCEPT
                 !.Environment = SetEnvironment(@, ToUpper(name) \o <<"_">>,
                                                variables_, DOMAIN variables_)]
        ELSE services[n]]

\* variables, err := s.executePlugin(...); if err != nil { return err };
\* the loop over project.Services; return nil.
runPluginReturn ==
    /\ pc = "ret"
    /\ pc' = "done"
    /\ runErr' = retErr
    /\ project' = IF retErr # NoErr
                  THEN project
                  ELSE Propagate(project, service.Name, retVars.m)
    /\ UNCHANGED <<command, project0, plugin, hook, ctxDone, child, exitCode,
                   sent, wclosed, pipe, stdout, waitTask, waitErr, buf, msg,
                   nDecoded, sawEOF, variables, events, joins, retVars, retErr,
                   integration, probe, server, spawned, closers, signal>>

\* --------------------------------------------------------- executePlugin

\* stdout, err := cmd.StdoutPipe(); if err != nil { return nil, err }
StdoutPipe ==
    /\ pc = "pipe"
    /\ \E ok \in BOOLEAN :
         IF ok
         THEN /\ stdout' = "open"
              /\ pc' = "start"
              /\ UNCHANGED <<retVars, retErr>>
         ELSE /\ retVars' = NilVars
              /\ retErr' = Err("exec: Stdout already set", <<>>)
              /\ pc' = "ret"
              /\ UNCHANGED stdout
    /\ UNCHANGED <<command, project, project0, plugin, hook, ctxDone, child, exitCode,
                   sent, wclosed, pipe, waitTask, waitErr, buf, msg,
                   nDecoded, sawEOF, variables, events, joins, runErr,
                   integration, probe, server, spawned, closers, signal>>

\* A return of executePlugin after `defer func() { _ = stdout.Close() }()`.
Return(v, e) ==
    /\ pc' = "ret"
    /\ retVars' = v
    /\ retErr' = e
    /\ stdout' = "closed"
    /\ closers' = closers \cup {"defer"}

\* err = cmd.Start(), which fails when ctx is done and closes the pipe when
\* it fails; eg.Go(cmd.Wait); the deferred close; the switch on command.
Start ==
    /\ pc = "start"
    /\ \E ok \in BOOLEAN :
         IF ~ok \/ ctxDone
         THEN /\ pc' = "ret"
              /\ retVars' = NilVars
              /\ retErr' = Err("exec: start failed", <<>>)
              /\ stdout' = "closed"
              /\ closers' = closers \cup {"Start"}
              /\ UNCHANGED <<child, waitTask, events, spawned>>
         ELSE /\ child' = "running"
              /\ spawned' = spawned + 1
              /\ waitTask' = "running"
              /\ CASE command = "up" ->
                        /\ events' = Append(events, CreatingEvent(service.Name))
                        /\ pc' = "decode"
                        /\ UNCHANGED <<retVars, retErr, stdout, closers>>
                   [] command = "down" ->
                        /\ events' = Append(events, RemovingEvent(service.Name))
                        /\ pc' = "decode"
                        /\ UNCHANGED <<retVars, retErr, stdout, closers>>
                   [] OTHER ->
                        /\ Return(NilVars, Err("unsupported plugin command: %s", <<Text(command)>>))
                        /\ UNCHANGED events
    /\ UNCHANGED <<command, project, project0, plugin, hook, ctxDone, exitCode,
                   sent, wclosed, pipe, waitErr, buf, msg,
                   nDecoded, sawEOF, variables, joins, runErr,
                   integration, probe, server, signal>>

\* The next iteration of the for loop.
Continue ==
    /\ pc' = "decode"
    /\ UNCHANGED <<retVars, retErr, stdout, closers>>

\* OnError as it would be without its return: the loop goes on.
OnErrorContinue(m) ==
    /\ events' = Append(events, ErrorMessageEvent(service.Name, Text("error")))
    /\ Continue
    /\ UNCHANGED <<variables, project>>

\* case ErrorType
OnError(m) ==
    /\ events' = Append(events, ErrorMessageEvent(service.Name, Text("error")))
    /\ Return(NilVars, New(m.Message))
    /\ UNCHANGED <<variables, project>>

\* case InfoType
OnInfo(m) ==
    /\ events' = Append(events, ErrorMessageEvent(service.Name, m.Message))
    /\ Continue
    /\ UNCHANGED <<variables, project>>

\* OnSetEnv as it would be if each variable were copied to the dependents as
\* soon as it is decoded.
OnSetEnvEager(m) ==
    LET c == Cut(m.Message) IN
    /\ IF ~c.found
       THEN /\ Return(NilVars, Err("invalid response from plugin: %s", <<m.Message>>))
            /\ UNCHANGED <<variables, project>>
       ELSE /\ variables' = MapSet(variables, c.key, c.val)
            /\ project' = Propagate(project, service.Name, MapSet(EmptyMap, c.key, c.val))
            /\ Continue
    /\ UNCHANGED events

\* OnSetEnv as it would be if a key already in the map kept its first value.
OnSetEnvKeepFirst(m) ==
    LET c == Cut(m.Message) IN
    /\ IF ~c.found
       THEN /\ Return(NilVars, Err("invalid response from plugin: %s", <<m.Message>>))
            /\ UNCHANGED variables
       ELSE /\ variables' = IF c.key \in DOMAIN variables
                             THEN variables
                             ELSE MapSet(variables, c.key, c.val)
            /\ Continue
    /\ UNCHANGED <<events, project>>

\* case SetEnvType
OnSetEnv(m) ==
    LET c == Cut(m.Message) IN
    /\ IF ~c.found
       THEN /\ Return(NilVars, Err("invalid response from plugin: %s", <<m.Message>>))
            /\ UNCHANGED variables
       ELSE /\ variables' = MapSet(variables, c.key, c.val)
            /\ Continue
    /\ UNCHANGED <<events, project>>

\* OnDefault as it would be if unknown types were skipped.
OnDefaultIgnore(m) ==
    /\ Continue
    /\ UNCHANGED <<variables, events, project>>

\* default
OnDefault(m) ==
    /\ Return(NilVars, Err("invalid response from plugin: %s", <<Text(m.Type)>>))
    /\ UNCHANGED <<variables, events, project>>

\* The body of the loop once decoder.Decode(&msg) has filled msg: a decode
\* error returns it, otherwise the switch on msg.Type.
Dispatch(m) ==
    IF ~m.json
    THEN /\ Return(NilVars, Err("invalid character", <<>>))
         /\ UNCHANGED <<variables, events, project>>
    ELSE CASE m.Type = ErrorType -> OnError(m)
           [] m.Type = InfoType -> OnInfo(m)
           [] m.Type = SetEnvType -> OnSetEnv(m)
           [] OTHER -> OnDefault(m)

\* One iteration of the for loop: decoder.Decode(&msg) takes the next message
\* from its buffer, or reads what the pipe holds (some or all of it) into the
\* buffer; a read of the closed pipe fails, the end of the stream breaks.
Decode ==
    /\ pc = "decode"
    /\ \/ /\ buf # <<>>
          /\ msg' = Head(buf)
          /\ buf' = Tail(buf)
          /\ nDecoded' = nDecoded + 1
          /\ Dispatch(Head(buf))
          /\ UNCHANGED <<pipe, sawEOF>>
       \/ /\ buf = <<>>
          /\ stdout = "open"
          /\ pipe # <<>>
          /\ \E k \in 1..Len(pipe) :
               /\ msg' = Head(pipe)
               /\ buf' = SubSeq(pipe, 2, k)
               /\ pipe' = SubSeq(pipe, k + 1, Len(pipe))
          /\ nDecoded' = nDecoded + 1
          /\ Dispatch(Head(pipe))
          /\ UNCHANGED sawEOF
       \/ /\ buf = <<>>
          /\ stdout = "open"
          /\ pipe = <<>>
          /\ wclosed
          /\ sawEOF' = TRUE
          /\ pc' = "join"
          /\ UNCHANGED <<buf, pipe, msg, nDecoded, retVars, retErr, stdout,
                         variables, events, project, closers>>
       \/ /\ buf = <<>>
          /\ stdout = "closed"
          /\ Return(NilVars, Err("read |0: file already closed", <<>>))
          /\ UNCHANGED <<buf, pipe, msg, nDecoded, sawEOF, variables, events, project>>
    /\ UNCHANGED <<command, project0, plugin, hook, ctxDone, child, exitCode,
                   sent, wclosed, waitTask, waitErr, joins, runErr,
                   integration, probe, server, spawned, signal>>

\* Join as it would be without the test of eg.Wait's error.
JoinIgnoringExit ==
    /\ pc = "join"
    /\ waitTask = "done"
    /\ joins' = joins + 1
    /\ events' = Append(events, IF command = "up"
                                 THEN CreatedEvent(service.Name)
                                 ELSE RemovedEvent(service.Name))
    /\ Return(Vars(variables), NoErr)
    /\ UNCHANGED <<command, project, project0, plugin, hook, ctxDone, child, exitCode,
                   sent, wclosed, pipe, waitTask, waitErr, buf, msg,
                   nDecoded, sawEOF, variables, runErr,
                   integration, probe, server, spawned, signal>>

\* Join as it would be if the operation named in the error were always create.
JoinNamingCreate ==
    /\ pc = "join"
    /\ waitTask = "done"
    /\ joins' = joins + 1
    /\ IF waitErr # NoErr
       THEN /\ events' = Append(events, ErrorMessageEvent(service.Name, Error(waitErr)))
            /\ Return(NilVars, Err("failed to %s external service: %s",
                                   <<Text("create"), Error(waitErr)>>))
       ELSE /\ events' = Append(events, IF command = "up"
                                        THEN CreatedEvent(service.Name)
                                        ELSE RemovedEvent(service.Name))
            /\ Return(Vars(variables), NoErr)
    /\ UNCHANGED <<command, project, project0, plugin, hook, ctxDone, child, exitCode,
                   sent, wclosed, pipe, waitTask, waitErr, buf, msg,
                   nDecoded, sawEOF, variables, runErr,
                   integration, probe, server, spawned, signal>>

\* err = eg.Wait() and what follows it: blocks until cmd.Wait has returned.
Join ==
    /\ pc = "join"
    /\ waitTask = "done"
    /\ joins' = joins + 1
    /\ IF waitErr # NoErr
       THEN /\ events' = Append(events, ErrorMessageEvent(service.Name, Error(waitErr)))
            /\ Return(NilVars, Err("failed to %s external service: %s",
                                   <<Text(IF command = "up" THEN "create" ELSE "remove"),
                                     Error(waitErr)>>))
       ELSE /\ events' = Append(events, IF command = "up"
                                        THEN CreatedEvent(service.Name)
                                        ELSE RemovedEvent(service.Name))
            /\ Return(Vars(variables), NoErr)
    /\ UNCHANGED <<command, project, project0, plugin, hook, ctxDone, child, exitCode,
                   sent, wclosed, pipe, waitTask, waitErr, buf, msg,
                   nDecoded, sawEOF, variables, runErr,
                   integration, probe, server, spawned, signal>>

\* ------------------------------------------- the child and the wait task

\* The plugin writes one message to its stdout.
ChildWrite ==
    /\ child = "running"
    /\ ~wclosed
    /\ stdout = "open"
    /\ Len(sent) < MaxMsgs
    /\ \E m \in Messages : pipe' = Append(pipe, m) /\ sent' = Append(sent, m)
    /\ UNCHANGED <<pc, command, project, project0, plugin, hook, ctxDone, child,
                   exitCode, wclosed, stdout, waitTask, waitErr, buf, msg, nDecoded,
                   sawEOF, variables, events, joins, retVars, retErr, runErr,
                   integration, probe, server, spawned, closers, signal>>

\* The plugin closes its stdout before it exits.
ChildClose ==
    /\ child = "running"
    /\ ~wclosed
    /\ wclosed' = TRUE
    /\ UNCHANGED <<pc, command, project, project0, plugin, hook, ctxDone, child,
                   exitCode, sent, pipe, stdout, waitTask, waitErr, buf, msg, nDecoded,
                   sawEOF, variables, events, joins, retVars, retErr, runErr,
                   integration, probe, server, spawned, closers, signal>>

\* The plugin exits, which closes its stdout.
ChildExit ==
    /\ child = "running"
    /\ child' = "exited"
    /\ \E code \in ExitCodes : exitCode' = code
    /\ wclosed' = TRUE
    /\ UNCHANGED <<pc, command, project, project0, plugin, hook, ctxDone,
                   sent, pipe, stdout, waitTask, waitErr, buf, msg, nDecoded,
                   sawEOF, variables, events, joins, retVars, retErr, runErr,
                   integration, probe, server, spawned, closers, signal>>

\* ctx is cancelled; once the process is started exec calls cmd.Cancel. The
\* default kills the child. server.Close reaches the child only through a
\* server that is still open, and replaces the default: with the server closed
\* the running child is told nothing.
CtxCancel ==
    /\ ~ctxDone
    /\ pc # "done"
    /\ ctxDone' = TRUE
    /\ IF child = "running"
       THEN IF hook = "kill" \/ server = "open"
            THEN /\ child' = "exited" /\ exitCode' = -1 /\ wclosed' = TRUE
                 /\ signal' = "delivered"
            ELSE /\ signal' = "lost"
                 /\ UNCHANGED <<child, exitCode, wclosed>>
       ELSE UNCHANGED <<child, exitCode, wclosed, signal>>
    /\ server' = IF child = "running" /\ hook = "server" THEN "closed" ELSE server
    /\ UNCHANGED <<pc, command, project, project0, plugin, hook,
                   sent, pipe, stdout, waitTask, waitErr, buf, msg, nDecoded,
                   sawEOF, variables, events, joins, retVars, retErr, runErr,
                   integration, probe, spawned, closers>>

\* The error of cmd.Wait for an exit status, given whether ctx was done before
\* Wait returned.
WaitResult(code, cancelled) ==
    IF code # 0
    THEN Err("exit status %d", <<Itoa(code)>>)
    ELSE IF cancelled THEN Err("context canceled", <<>>) ELSE NoErr

\* Wait as it would be if cmd.Wait returned only once the reader had closed
\* its end of the pipe, without closing it itself.
WaitForReaderClose ==
    /\ waitTask = "running"
    /\ child = "exited"
    /\ stdout = "closed"
    /\ waitErr' = WaitResult(exitCode, ctxDone)
    /\ waitTask' = "done"
    /\ UNCHANGED <<pc, command, project, project0, plugin, hook, ctxDone, child,
                   exitCode, sent, wclosed, pipe, buf, msg, nDecoded,
                   sawEOF, variables, events, joins, retVars, retErr, runErr,
                   integration, probe, server, spawned, signal, stdout, closers>>

\* cmd.Wait in the goroutine of eg.Go: returns once the child has exited, and
\* closes the parent's end of the stdout pipe before it returns.
Wait ==
    /\ waitTask = "running"
    /\ child = "exited"
    /\ waitErr' = WaitResult(exitCode, ctxDone)
    /\ stdout' = "closed"
    /\ closers' = closers \cup {"Wait"}
    /\ waitTask' = "done"
    /\ UNCHANGED <<pc, command, project, project0, plugin, hook, ctxDone, child,
                   exitCode, sent, wclosed, pipe, buf, msg, nDecoded,
                   sawEOF, variables, events, joins, retVars, retErr, runErr,
                   integration, probe, server, spawned, signal>>

Next ==
    \/ Resolve
    \/ Gate
    \/ setupPluginCommand
    \/ StdoutPipe
    \/ Start
    \/ Decode
    \/ Join
    \/ runPluginReturn
    \/ ChildWrite
    \/ ChildClose
    \/ ChildExit
    \/ CtxCancel
    \/ Wait

Spec == Init /\ [][Next]_vars

\* The goroutine of executePlugin (the decode loop, eg.Wait) and the goroutine
\* of eg.Go(cmd.Wait) are both scheduled as long as they can take a step.
FairSpec == Spec /\ WF_vars(Decode) /\ WF_vars(Join) /\ WF_vars(Wait)

\* ======================================================== the properties

\* executePlugin has returned, to runPlugin or beyond.
Returned == pc \in {"ret", "done"}

\* The decode loop was entered: the switch on command let the call through.
LoopEntered == \E i \in 1..Len(events) : events[i].ctor \in {"CreatingEvent", "RemovingEvent"}

\* A created / removed event has been emitted.
CompletedEmitted == \E i \in 1..Len(events) : events[i].ctor \in {"CreatedEvent", "RemovedEvent"}

\* s has no "=".
NoEq(s) == \A i \in 1..Len(s) : s[i] # "="

\* A well-formed info or setenv message.
WellFormed(m) ==
    /\ m.json
    /\ \/ m.Type = "info"
       \/ m.Type = "setenv" /\ ~NoEq(m.Message)

\* The key and the value a setenv payload with "=" carries, stated without Cut:
\* the payload is key, "=", value, and the key has no "=".
Carries(s, k, v) == s = k \o <<"=">> \o v /\ NoEq(k)
PartsOf(s) == {<<SubSeq(s, 1, i - 1), SubSeq(s, i + 1, Len(s))>> : i \in 1..Len(s)}

\* The variables the first n messages of the stream carry, later ones winning.
RECURSIVE CarriedVars(_, _)
CarriedVars(seq, n) ==
    IF n = 0
    THEN EmptyMap
    ELSE LET m == seq[n]
             before == CarriedVars(seq, n - 1) IN
         IF m.json /\ m.Type = "setenv" /\ ~NoEq(m.Message)
         THEN LET kv == CHOOSE p \in PartsOf(m.Message) : Carries(m.Message, p[1], p[2]) IN
              MapSet(before, kv[1], kv[2])
         ELSE before

\* C1 (as claimed): once the decode loop has completed, by end-of-stream or by
\* an error, the process-wait has been joined exactly once before the
\* invocation returns.
C1_LoopCompletionJoinsWait ==
    (Returned /\ LoopEntered) => joins = 1

\* C2 (as claimed): in every interleaving of the wait task and the decode
\* loop, a child that writes only well-formed info/setenv messages, closes
\* its stream and exits with status zero makes the invocation succeed with
\* exactly the variables its setenv messages carry.
C2_WellFormedChildSucceeds ==
    ( /\ pc = "done"
      /\ LoopEntered
      /\ ~ctxDone
      /\ child = "exited" /\ exitCode = 0
      /\ \A i \in 1..Len(sent) : WellFormed(sent[i]) )
    => (runErr = NoErr /\ retVars = Vars(CarriedVars(sent, Len(sent))))

\* C3: the configuration graph differs from the graph runPlugin was called
\* with only once runPlugin has returned nil after a successful
\* executePlugin; while it runs and after every failure the graph is the same.
C3_GraphMutatedOnlyAfterSuccess ==
    (pc # "done" \/ runErr # NoErr \/ retErr # NoErr \/ retVars.nil) => project = project0

\* C3 witness: a failed invocation that had already collected variables, on a
\* project with dependents.
C3_Witness ==
    /\ pc = "done"
    /\ runErr # NoErr
    /\ DOMAIN variables # {}
    /\ \E n \in DOMAIN project : service.Name \in project[n].DependsOn

\* C4: a non-nil variable set or a created/removed event exists only when the
\* stream reached end-of-stream and the wait was joined with exit status zero;
\* in every other outcome the returned set is nil and no such event exists.
C4_SuccessOnlyAfterEOFAndZeroExit ==
    LET Clean == /\ sawEOF /\ wclosed /\ pipe = <<>> /\ buf = <<>>
                 /\ joins = 1 /\ waitTask = "done"
                 /\ child = "exited" /\ exitCode = 0
    IN /\ (~retVars.nil \/ CompletedEmitted) => (Clean /\ Returned /\ retErr = NoErr)
       /\ (Returned /\ ~Clean) => (retVars.nil /\ ~CompletedEmitted /\ (retErr # NoErr \/ runErr # NoErr))

\* C4 witness: a successful return with variables and the created event.
C4_Witness ==
    /\ Returned
    /\ ~retVars.nil /\ DOMAIN retVars.m # {}
    /\ events[Len(events)].ctor = "CreatedEvent"
    /\ exitCode = 0 /\ sawEOF

\* C5 (as claimed): every failed invocation has emitted an error lifecycle
\* event, as its last event.
C5_EveryFailureEmitsErrorEvent ==
    (pc = "done" /\ runErr # NoErr) =>
        (events # <<>> /\ events[Len(events)].ctor = "ErrorMessageEvent")

\* The i-th message of the stream has been decoded and is the last one
\* decoded: nothing after it has been processed.
LastDecoded(i) == nDecoded = i /\ msg = sent[i]

\* The invocation has failed with error e and nothing else: no variables
\* returned, no created/removed event, the graph as it was.
FailedWith(e) ==
    /\ Returned
    /\ retErr = e
    /\ retVars.nil
    /\ ~CompletedEmitted
    /\ project = project0
    /\ pc = "done" => runErr = e

\* C6: once the first error message of the stream is decoded, it stays the
\* last message decoded, and the invocation fails with an error whose text is
\* exactly that message's payload, returning no variables whatever setenv
\* messages came before or after it.
C6_ErrorMessageEndsInvocation ==
    \A i \in 1..Len(sent) :
        (i <= nDecoded /\ sent[i].json /\ sent[i].Type = "error") =>
            /\ LastDecoded(i)
            /\ FailedWith(retErr)
            /\ retErr # NoErr
            /\ Error(retErr) = sent[i].Message

\* C6 witness: an error message decoded after a setenv message that had put a
\* variable in the map, with a further message behind it in the stream.
C6_Witness ==
    /\ pc = "done"
    /\ nDecoded = 2 /\ msg.Type = "error"
    /\ sent[1].Type = "setenv" /\ DOMAIN variables # {}
    /\ Len(sent) = 3 /\ sent[3].Type = "setenv" /\ ~NoEq(sent[3].Message)
    /\ retVars.nil /\ Error(runErr) = <<"b", "a", "d">>

\* The key a result key gets in a dependent of service db.
Prefixed(key) == <<"D", "B", "_">> \o key

\* C7: after a successful invocation returning V, every service that declares
\* db in DependsOn has, for each key of V, the entry DB_<key> with that key's
\* own value.
C7_DependentsGetPrefixedVariables ==
    (pc = "done" /\ runErr = NoErr) =>
        \A n \in DOMAIN project0 :
            db \in project0[n].DependsOn =>
                \A key \in DOMAIN retVars.m :
                    /\ Prefixed(key) \in DOMAIN project[n].Environment
                    /\ project[n].Environment[Prefixed(key)] = retVars.m[key]

\* C7 witness: a success with two keys of different values, the first of them
\* replacing an entry the dependent already had.
C7_Witness ==
    /\ pc = "done" /\ runErr = NoErr
    /\ DOMAIN retVars.m = {<<"a">>, <<"b">>}
    /\ retVars.m[<<"a">>] # retVars.m[<<"b">>]
    /\ \E n \in DOMAIN project0 :
          /\ db \in project0[n].DependsOn
          /\ Prefixed(<<"a">>) \in DOMAIN project0[n].Environment

\* C8: after a successful invocation the services and their DependsOn are as
\* before, a service that does not declare db in DependsOn has its
\* environment as before, and a dependent's environment differs only at the
\* prefixed result keys.
C8_OnlyDirectDependentsChange ==
    (pc = "done" /\ runErr = NoErr) =>
        /\ DOMAIN project = DOMAIN project0
        /\ \A n \in DOMAIN project0 :
              LET old == project0[n].Environment
                  new == project[n].Environment
                  keys == {Prefixed(key) : key \in DOMAIN retVars.m} IN
              /\ project[n].DependsOn = project0[n].DependsOn
              /\ db \notin project0[n].DependsOn => new = old
              /\ db \in project0[n].DependsOn =>
                    /\ DOMAIN new = (DOMAIN old) \cup keys
                    /\ \A k \in (DOMAIN old) \ keys : new[k] = old[k]

\* C8 witness: a success that changed a dependent and left untouched a service
\* that depends on db only through another service, and db itself.
C8_Witness ==
    /\ pc = "done" /\ runErr = NoErr
    /\ DOMAIN retVars.m # {}
    /\ project[web] # project0[web] /\ project[job] # project0[job]
    /\ db \notin project0[api].DependsOn /\ web \in project0[api].DependsOn
    /\ project[web].Environment[<<"p">>] = <<"8">>

\* C9 (as claimed): a decoded message whose type is outside
\* {error, info, set-env} fails the invocation with the protocol error, and
\* no message after it is processed.
C9_KindsOutsideSetEnvDashRejected ==
    \A i \in 1..Len(sent) :
        (i <= nDecoded /\ sent[i].json /\ sent[i].Type \notin {"error", "info", "set-env"}) =>
            /\ LastDecoded(i)
            /\ FailedWith(Err("invalid response from plugin: %s", <<Text(sent[i].Type)>>))

\* C9 (amended): a decoded message whose type is outside
\* {error, info, setenv} fails the invocation with the protocol error naming
\* the type, no message after it is processed and no variables are returned;
\* a message of type error, info or setenv is never refused for its type.
C9_KindsOutsideSetenvRejected ==
    \A i \in 1..Len(sent) :
        (i <= nDecoded /\ sent[i].json) =>
            IF sent[i].Type \notin {"error", "info", "setenv"}
            THEN /\ LastDecoded(i)
                 /\ FailedWith(Err("invalid response from plugin: %s", <<Text(sent[i].Type)>>))
            ELSE LastDecoded(i) =>
                    CASE sent[i].Type = "error" -> retErr = New(sent[i].Message)
                      [] sent[i].Type = "info" -> retErr.fmt # "invalid response from plugin: %s"
                      [] sent[i].Type = "setenv" ->
                            NoEq(sent[i].Message) \/ retErr.fmt # "invalid response from plugin: %s"

\* C9 witness: a message of type set-env refused after a setenv message was
\* taken.
C9_Witness ==
    /\ pc = "done"
    /\ nDecoded = 2
    /\ sent[1].Type = "setenv" /\ DOMAIN variables # {}
    /\ sent[2].Type = "set-env"
    /\ runErr = Err("invalid response from plugin: %s", <<Text("set-env")>>)

\* C10: a decoded setenv message whose payload has no "=" fails the
\* invocation with the protocol error naming the payload before any further
\* message is processed, returning no variables; one whose payload has "="
\* puts value at key in the map, the key being the text before the first "="
\* and the value all the text after it.
C10_SetEnvPayloadIsCutAtFirstEq ==
    \A i \in 1..Len(sent) :
        (i <= nDecoded /\ sent[i].json /\ sent[i].Type = "setenv") =>
            IF NoEq(sent[i].Message)
            THEN /\ LastDecoded(i)
                 /\ FailedWith(Err("invalid response from plugin: %s", <<sent[i].Message>>))
            ELSE LastDecoded(i) =>
                    \E kv \in PartsOf(sent[i].Message) :
                        /\ Carries(sent[i].Message, kv[1], kv[2])
                        /\ kv[1] \in DOMAIN variables
                        /\ variables[kv[1]] = kv[2]

\* C10 witness: a payload without "=" refused after a valid setenv message,
\* and before it a payload whose value itself holds "=".
C10_Witness ==
    /\ pc = "done"
    /\ nDecoded = 2
    /\ sent[1] = JsonMessage("setenv", <<"b", "=", "y", "=", "x">>)
    /\ variables = MapSet(EmptyMap, <<"b">>, <<"y", "=", "x">>)
    /\ sent[2] = JsonMessage("setenv", <<"a", "x">>)
    /\ retVars.nil /\ runErr # NoErr

\* C11: whenever the stream ended at end-of-stream and the joined wait
\* reported an error, the invocation fails with "failed to create external
\* service: <detail>" for up and "failed to remove external service: <detail>"
\* for down, <detail> being the wait's error text; the last event is an error
\* event with that text, no created/removed event exists, and the variables
\* collected from setenv messages are not returned.
C11_FailedWaitNamesOperation ==
    (sawEOF /\ joins > 0 /\ waitErr # NoErr) =>
        /\ command \in {"up", "down"}
        /\ FailedWith([fmt |-> "failed to %s external service: %s",
                       args |-> <<(IF command = "down" THEN <<"remove">> ELSE <<"create">>),
                                  Error(waitErr)>>])
        /\ events[Len(events)] = [ctor |-> "ErrorMessageEvent", id |-> db,
                                  text |-> Error(waitErr)]

\* C11 witness: a down that read a variable and the end of the stream, and
\* whose child then exited with status 1.
C11_Witness ==
    /\ pc = "done"
    /\ command = "down"
    /\ sawEOF /\ joins = 1
    /\ exitCode = 1 /\ ~ctxDone
    /\ DOMAIN variables # {}
    /\ Error(runErr) = <<"failed to %s external service: %s", "remove", "exit status %d", "1">>

\* C12: a process has been started, or a lifecycle event emitted, only when
\* getPluginBinaryPath found a plugin and the gate then let it through; when
\* resolution fails or the gate refuses (integration off, for one), runPlugin
\* returns that error with no process started and no event; and one
\* invocation starts at most one process.
C12_SpawnOnlyAfterResolutionAndGate ==
    /\ spawned <= 1
    /\ (spawned > 0 \/ child # "none" \/ events # <<>>) =>
          (plugin # "" /\ integration = "on")
    /\ (pc = "done" /\ plugin = "") =>
          (runErr = Err("plugin not found", <<>>)
             /\ spawned = 0 /\ child = "none" /\ events = <<>> /\ stdout = "none")
    /\ (pc = "done" /\ integration = "off") =>
          (runErr = Err("you should enable Docker Desktop integration to use %q provider services",
                        <<Text(plugin)>>)
             /\ spawned = 0 /\ child = "none" /\ events = <<>> /\ stdout = "none")
    /\ (pc = "done" /\ runErr.fmt \in {"unsupported provider %q",
                                       "you should enable model runner to use %q provider services: %s"}) =>
          (spawned = 0 /\ child = "none" /\ events = <<>> /\ stdout = "none")

\* C12 witness: the gate has refused a resolved plugin for the integration
\* being off, and runPlugin has returned.
C12_Witness ==
    /\ pc = "done"
    /\ plugin = "model"
    /\ integration = "off"
    /\ runErr # NoErr
    /\ spawned = 0

\* A cancellation that arrived while the child was running ends the
\* invocation in failure: an error, no completed event, the graph untouched.
CancelledRunFails ==
    (signal # "none" /\ pc = "done") =>
        (runErr # NoErr /\ ~CompletedEmitted /\ project = project0)

\* C13: a cancellation of ctx while the child is running reaches the child
\* through cmd.Cancel, so that the child terminates, and the invocation then
\* ends in failure, never in success or with variables propagated.
C13_CancellationReachesChild ==
    /\ signal # "lost"
    /\ CancelledRunFails

\* Once executePlugin has returned, a stdout handle it acquired is closed.
StdoutClosedAtReturn ==
    (pc \in {"ret", "propagate", "done"} /\ stdout # "none") =>
        (stdout = "closed" /\ closers # {})

\* C14: the stdout handle acquired by executePlugin is closed on every exit
\* path after acquisition, and by one party only: no two of cmd.Start,
\* cmd.Wait and the deferred stdout.Close() have both closed it.
C14_StdoutClosedExactlyOnce ==
    /\ StdoutClosedAtReturn
    /\ Cardinality(closers) <= 1

\* The invocation has ended in success.
Succeeded == pc = "done" /\ runErr = NoErr /\ CompletedEmitted /\ ~retVars.nil

\* Message i of the stream is a setenv message whose payload has "=", and the
\* key and value it carries.
IsSetEnv(i) == sent[i].json /\ sent[i].Type = "setenv" /\ ~NoEq(sent[i].Message)
KeyVal(i) == CHOOSE kv \in PartsOf(sent[i].Message) : Carries(sent[i].Message, kv[1], kv[2])

\* C15 (as claimed): a stream with two setenv messages for one key and
\* different values never ends in a success whose result maps the key to the
\* later value.
C15_RepeatedKeyIsAnomaly ==
    \A i, j \in 1..Len(sent) :
        (i < j /\ IsSetEnv(i) /\ IsSetEnv(j)
           /\ KeyVal(i)[1] = KeyVal(j)[1] /\ KeyVal(i)[2] # KeyVal(j)[2]) =>
            ~(Succeeded /\ KeyVal(j)[1] \in DOMAIN retVars.m
                 /\ retVars.m[KeyVal(j)[1]] = KeyVal(j)[2])

\* C15 (amended): the keys of the result are unique because it is a map, and a
\* repeated key is not an anomaly: on success the result holds exactly the keys
\* the setenv messages carried, each with the value of the last message that
\* carried it.
C15_RepeatedKeyLastWriteWins ==
    Succeeded =>
        /\ nDecoded = Len(sent)
        /\ DOMAIN retVars.m = {KeyVal(i)[1] : i \in {n \in 1..Len(sent) : IsSetEnv(n)}}
        /\ \A j \in 1..Len(sent) :
              (IsSetEnv(j) /\ \A l \in (j + 1)..Len(sent) :
                                  IsSetEnv(l) => KeyVal(l)[1] # KeyVal(j)[1]) =>
                  retVars.m[KeyVal(j)[1]] = KeyVal(j)[2]

\* C15 witness: a success after "a=x" then "a=", the result mapping a to the
\* empty value of the second message.
C15_Witness ==
    /\ Succeeded
    /\ Len(sent) = 2
    /\ sent[1] = JsonMessage("setenv", <<"a", "=", "x">>)
    /\ sent[2] = JsonMessage("setenv", <<"a", "=">>)
    /\ retVars.m = MapSet(EmptyMap, <<"a">>, <<>>)

\* The payloads of the info messages among the first n of the stream, in order.
RECURSIVE InfoTexts(_)
InfoTexts(n) ==
    IF n = 0
    THEN <<>>
    ELSE IF sent[n].json /\ sent[n].Type = InfoType
         THEN Append(InfoTexts(n - 1), sent[n].Message)
         ELSE InfoTexts(n - 1)

\* The order of the events: the creating / removing event comes first and
\* before any message is decoded, the decoded info messages follow with one
\* event each carrying the payload, in message order, and a created / removed
\* event is the single last one, of a success.
EventsOrdered ==
    /\ nDecoded > 0 => LoopEntered
    /\ LoopEntered =>
         LET k == Len(InfoTexts(nDecoded)) IN
         /\ events[1] \in {CreatingEvent(db), RemovingEvent(db)}
         /\ Len(events) \in {1 + k, 2 + k}
         /\ \A e \in 1..k : events[1 + e].id = db /\ events[1 + e].text = InfoTexts(nDecoded)[e]
         /\ \A e \in 1..Len(events) :
               events[e].ctor \in {"CreatedEvent", "RemovedEvent"} =>
                   (e = 2 + k /\ retErr = NoErr /\ ~retVars.nil /\ nDecoded = Len(sent))

\* C16: the creating / removing event precedes every decode, each info
\* message then emits one informational event with its payload, in message
\* order, and at most one created / removed event follows them, on success.
\* An informational event is not an error event.
C16_InfoEmitsInformationalEvent ==
    /\ EventsOrdered
    /\ LoopEntered =>
         \A e \in 1..Len(InfoTexts(nDecoded)) : events[1 + e].ctor # "ErrorMessageEvent"

\* The formats of the errors of checkPluginEnabledInDD.
GateFmts ==
    {"you should enable Docker Desktop integration to use %q provider services",
     "you should enable model runner to use %q provider services: %s",
     "unsupported provider %q"}

\* The gate was evaluated and refused with error e: runPlugin returned it
\* with nothing started. The gate was evaluated and let the call through.
GateRefusedWith(e) == pc = "done" /\ runErr = e /\ spawned = 0 /\ stdout = "none"
GatePassed == integration # "" /\ runErr.fmt \notin GateFmts

\* Integration off is refused naming the provider; a name other than "model"
\* is refused as unsupported with integration on.
GateRefusesOffAndUnsupported ==
    /\ integration = "off" =>
          GateRefusedWith(Err("you should enable Docker Desktop integration to use %q provider services",
                              <<Text(plugin)>>))
    /\ (integration = "on" /\ plugin # "model") =>
          GateRefusedWith(Err("unsupported provider %q", <<Text(plugin)>>))

\* C17 (as claimed): the gate passes only with integration on, the name
\* "model" and a status probe that did not fail; integration off and other
\* names are refused, and every failing probe for "model" fails the gate.
C17_FailingProbeFailsGate ==
    /\ GatePassed => (integration = "on" /\ plugin = "model" /\ probe = "ok")
    /\ GateRefusesOffAndUnsupported
    /\ (integration = "on" /\ plugin = "model" /\ probe # "ok") =>
          (pc = "done" /\ runErr.fmt \in GateFmts /\ spawned = 0)

\* C17 (amended): the gate passes exactly with integration on, the name
\* "model" and a status probe that did not end with exit status 1; integration
\* off and other names are refused, a probe ending with exit status 1 is
\* refused naming the provider, and a probe failing any other way passes.
C17_OnlyExitStatusOneFailsGate ==
    /\ GatePassed <=> (integration = "on" /\ plugin = "model" /\ probe # "exit1")
    /\ GateRefusesOffAndUnsupported
    /\ probe = "exit1" =>
          /\ pc = "done" /\ spawned = 0 /\ stdout = "none"
          /\ runErr.fmt = "you should enable model runner to use %q provider services: %s"
          /\ runErr.args[1] = Text(plugin)

\* C17 witness: the status probe failed without exit status 1 and the call
\* went on to build the command.
C17_Witness ==
    /\ pc = "setup"
    /\ plugin = "model"
    /\ integration = "on"
    /\ probe = "other"
    /\ runErr = NoErr

\* C18: a plugin server obtained by setupPluginCommand is open when the
\* child is started and stays open while the child runs and ctx is not
\* cancelled; without a server no server.Close is wired as cmd.Cancel.
C18_RelayServerOpenWhileChildRuns ==
    /\ (hook = "server" /\ pc \in {"pipe", "start"}) => server = "open"
    /\ (hook = "server" /\ child = "running" /\ ~ctxDone) => server = "open"
    /\ server = "none" => hook = "kill"

\* C19: with the decode loop and the wait goroutine scheduled fairly, once the
\* child has exited (its output closed with it) executePlugin, if still in
\* the loop or at eg.Wait, returns; it decodes no more messages than the child
\* wrote, and returns either the variables or an error.
C19_TerminatesOnceChildExited ==
    /\ [](nDecoded <= Len(sent))
    /\ [](pc = "ret" => (retVars.nil <=> retErr # NoErr))
    /\ (child = "exited" /\ pc \in {"decode", "join"}) ~> Returned

\* C19 witness: the child wrote three messages and exited, and executePlugin
\* has returned after end-of-stream and the join.
C19_Witness ==
    /\ pc = "ret"
    /\ child = "exited"
    /\ wclosed
    /\ Len(sent) = MaxMsgs
    /\ nDecoded = MaxMsgs
    /\ sawEOF
    /\ joins = 1

\* C20: after a successful invocation, running the propagation loop once more
\* with the same variables for the same service leaves the project as it is;
\* and a dependent that already had a prefixed key has it once, with the
\* returned value in place of the old one.
C20_PropagationIdempotentAndOverwriting ==
    (pc = "done" /\ runErr = NoErr) =>
        /\ Propagate(project, service.Name, retVars.m) = project
        /\ \A n \in DOMAIN project0 :
              db \in project0[n].DependsOn =>
                  /\ DOMAIN project[n].Environment =
                        DOMAIN project0[n].Environment
                           \cup {Prefixed(key) : key \in DOMAIN retVars.m}
                  /\ \A key \in DOMAIN retVars.m :
                        Prefixed(key) \in DOMAIN project0[n].Environment =>
                            project[n].Environment[Prefixed(key)] = retVars.m[key]

\* C20 witness: web had DB_a with another value before the invocation, and
\* has the returned value of a there after it.
C20_Witness ==
    /\ pc = "done" /\ runErr = NoErr
    /\ <<"a">> \in DOMAIN retVars.m
    /\ Prefixed(<<"a">>) \in DOMAIN project0[web].Environment
    /\ project0[web].Environment[Prefixed(<<"a">>)] # retVars.m[<<"a">>]
    /\ project[web].Environment[Prefixed(<<"a">>)] = retVars.m[<<"a">>]

====
